---- MODULE Spec2Model ----
(***************************************************************************)
(* Model of the Duolingo client of duolingo_sync                           *)
(* (src/duolingo_sync/duolingo/duolingo.py).                               *)
(*                                                                         *)
(* Three specifications share the module:                                  *)
(*   Spec       the session: construction, the language switch and the     *)
(*              per-language accessors, one HTTP request per step;         *)
(*   SpecOrder  _compute_dependency_order_func over small skill graphs;    *)
(*   SpecVocab  the learned-lexemes pagination loop of get_vocabulary.     *)
(* The platform is the environment: every request draws its response       *)
(* (transport failure, or a status and a body) nondeterministically.       *)
(***************************************************************************)
EXTENDS Integers, Sequences, FiniteSets, TLC

VARIABLES
    \* ---- session (Spec)
    pc,          \* position of the caller inside the client's code
    srvActive,   \* the platform's active learning language
    user_data,   \* self.user_data: the cached snapshot
    authProbe,   \* status seen by _check_authentication (0: none yet)
    cur,         \* the operation in progress or last completed
    log,         \* requests sent by that operation, in order
    outcome,     \* how that operation ended: "none", "ok" or the error raised
    result,      \* what an accessor returned ("none": nothing)
    \* ---- skill ordering (SpecOrder)
    opc,         \* position inside compute_orders
    skills,      \* the skill list: names in list order
    deps,        \* name -> dependencies_name
    order,       \* name -> dependency_order (Unset: key absent)
    oidx,        \* index of the outer loop of compute_orders
    chain,       \* the chain reported by the loop error
    writes,      \* assignments to dependency_order made by the last step
    calls,       \* compute_orders calls finished so far
    \* ---- vocabulary pagination (SpecVocab)
    vpc,         \* position inside get_vocabulary's loop
    data,        \* the accumulator: one lexeme id per element
    current_index, \* the cursor of the next request
    totalLexemes,  \* pagination.totalLexemes of the last response
    requests,     \* cursors requested so far, in order
    conforming,   \* the platform has so far answered as a conforming server
    \* ---- get_vocabulary: the progressed-skills manifest ----
    mpc,          \* "fetched" (course path at hand), "built"
    current_courses,   \* currentCourse.pathSectioned: the path sections
    progressed_skills, \* the manifest
    \* ---- get_daily_xp_progress ----
    xpc,          \* "start", "done", "raised"
    zone,         \* the host's time zone: UTC offset, and one change of it
    now,          \* the host clock (epoch) when the call is made
    daily_progress,    \* the document fetched at line 454
    update_cutoff,     \* line 470
    xp_result,         \* the returned dictionary
    \* ---- _make_req ----
    rpc,          \* "start", "sent"
    jwtArg,       \* self.jwt
    urlArg,       \* url
    dataArg,      \* data
    prepped,      \* the prepared request handed to session.send
    \* ---- callers sharing one client (they share user_data, srvActive) ----
    tpc,          \* per caller: "idle", "sw_post", "sw_get", "sw_install",
                  \* "sw_verify", "read"
    targ,         \* per caller: the accessor called and its abbr
    tdoc,         \* per caller: what its _get_data() returned
    tout,         \* per caller: how its last call ended
    tres,         \* per caller: the language whose data its last call returned
    tverified,    \* per caller: its own _switch_language returned normally
    \* ---- plugin.py: sync_duolingo and its background operations ----
    ppc,          \* "menu", "login", "retrieved", "adding", "added", "done",
                  \* "op_failed", "add_raised"
    token,        \* what the login dialog returned
    ctorOutcome,  \* how Duolingo(jwt=jwt) ended inside login_and_retrieve_vocab
    vocabRequested,    \* lingo.get_vocabulary was called
    retrieve_result,   \* the VocabRetrieveResult
    ui,           \* the messages and prompts shown to the user, in order
    add_result,   \* the AddVocabResult
    words_processed,   \* add_vocab's counter
    cards         \* num_cards of each entry processed so far, in order

sessionVars == <<pc, srvActive, user_data, authProbe, cur, log, outcome, result>>
orderVars == <<opc, skills, deps, order, oidx, chain, writes, calls>>
vocabVars == <<vpc, data, current_index, totalLexemes, requests, conforming>>
manifestVars == <<mpc, current_courses, progressed_skills>>
xpVars == <<xpc, zone, now, daily_progress, update_cutoff, xp_result>>
requestVars == <<rpc, jwtArg, urlArg, dataArg, prepped>>
concVars == <<tpc, targ, tdoc, tout, tres, tverified>>
pluginVars == <<ppc, token, ctorOutcome, vocabRequested, retrieve_result, ui, add_result, words_processed, cards>>
vars == <<sessionVars, orderVars, vocabVars, manifestVars, xpVars, requestVars, concVars, pluginVars>>

(***************************************************************************)
(* Helpers on sequences                                                    *)
(***************************************************************************)
Range(s) == {s[i] : i \in 1..Len(s)}

InSeq(x, s) == \E i \in 1..Len(s) : s[i] = x

(***************************************************************************)
(* The platform and its responses                                          *)
(***************************************************************************)
\* Language abbreviations the caller may ask for.
Langs == {"es", "fr", "hv"}

\* HTTP statuses the platform answers with.
Statuses == {200, 304, 401, 404, 500}

\* What session.send gives back: sent = FALSE is a transport failure
\* (requests raises ConnectionError and there is no response); otherwise a
\* status and whether the body is the JSON document the endpoint serves.
NoResponse == [sent |-> FALSE, st |-> 0, json |-> FALSE]

Responses == [sent : {TRUE}, st : Statuses, json : BOOLEAN] \cup {NoResponse}

\* One entry of the request log: the endpoint and what came back.
Req(endpoint, r) ==
    [req |-> endpoint, sent |-> r.sent, st |-> r.st, json |-> r.json]

\* The profile document the platform serves: language_data holds the active
\* learning language only, and its skills carry no dependency_order (ordered
\* is FALSE).
ProfileDoc(active) ==
    [loaded |-> TRUE,
     language_data |-> [k \in {active} |-> [language |-> k, ordered |-> FALSE]]]

\* Before __init__ reaches line 48 the object has no user_data attribute.
NoUserData ==
    [loaded |-> FALSE,
     language_data |-> [k \in {} |-> [language |-> k, ordered |-> FALSE]]]

\* Struct(**doc): the attribute bag built from a document.
Struct(doc) == doc

Keys(ud) == DOMAIN ud.language_data

\* self.user_data = Struct(**...): the attribute is bound to the new object.
\* (faulty variant: the new document is patched into the old snapshot, whose
\* entries are kept)
ReplaceSnapshotMutant(old, doc) ==
    [loaded |-> TRUE,
     language_data |->
        [k \in Keys(old) \cup Keys(doc) |->
            IF k \in Keys(old) THEN old.language_data[k]
                               ELSE doc.language_data[k]]]
ReplaceSnapshot(old, doc) == Struct(doc)

(***************************************************************************)
(* Session: helpers                                                        *)
(***************************************************************************)
\* response.raise_for_status(): raises HTTPError for 4xx and 5xx.
\* (faulty variant: anything but 200 raises)
RaiseForStatusMutant(st) == st # 200
RaiseForStatus(st) == st >= 400

\* _check_authentication: resp.status_code == 200
\* (faulty variant: only 404 fails the probe)
CheckAuthenticationMutant(r) == r.st # 404
CheckAuthentication(r) == r.st = 200

\* _get_data: 404 raises 'User not found', otherwise get.json() (which raises
\* when the body is not JSON).
\* (faulty variant: the status is not looked at)
GetDataMutant(r, active) ==
    IF ~r.sent THEN [raised |-> "ConnectionError", doc |-> NoUserData]
    ELSE IF ~r.json THEN [raised |-> "JSONDecodeError", doc |-> NoUserData]
    ELSE [raised |-> "none", doc |-> ProfileDoc(active)]
GetData(r, active) ==
    IF ~r.sent THEN [raised |-> "ConnectionError", doc |-> NoUserData]
    ELSE IF r.st = 404 THEN [raised |-> "UserNotFound", doc |-> NoUserData]
    ELSE IF ~r.json THEN [raised |-> "JSONDecodeError", doc |-> NoUserData]
    ELSE [raised |-> "none", doc |-> ProfileDoc(active)]

\* _is_current_language: abbr in self.user_data.language_data.keys()
\* (faulty variant: every language counts as current)
IsCurrentLanguageMutant(ud, abbr) == TRUE
IsCurrentLanguage(ud, abbr) == abbr \in Keys(ud)

\* The accessors that begin with
\*   if not self._is_current_language(abbr): self._switch_language(abbr)
RoutedAccessors ==
    {"get_language_progress", "get_known_topics", "get_unknown_topics",
     "get_golden_topics", "get_reviewable_topics"}

\* The accessors that read language_data[abbr]['skills'].
SkillAccessors ==
    {"get_known_words", "get_known_topics", "get_unknown_topics",
     "get_golden_topics", "get_reviewable_topics"}

PerLanguageAccessors == RoutedAccessors \cup SkillAccessors

Operations ==
    PerLanguageAccessors \cup {"switch_active_language", "get_vocabulary"}

\* get_vocabulary begins with the same test (line 384).
EnsuresActive(op) == op \in RoutedAccessors \cup {"get_vocabulary"}

\* Where an operation goes on once abbr is the active language.
AfterEnsure(op) == IF op = "get_vocabulary" THEN "vocab_course" ELSE "read"

\* Some skill of the snapshot holds a memoized dependency_order.
HasOrder(ud) == \E k \in Keys(ud) : ud.language_data[k].ordered

\* The credential None.
NoneJwt == "<None>"

\* line 54: not getattr(self, 'jwt', None) is false, i.e. the credential is
\* neither None nor empty.
\* (faulty variant: only None is refused, as in _make_req line 71)
HasCredentialMutant(jwt) == jwt # NoneJwt
HasCredential(jwt) == jwt \notin {NoneJwt, ""}

NoOp == [op |-> "none", abbr |-> "none", wasActive |-> FALSE, hadOrder |-> FALSE]

(***************************************************************************)
(* Session: construction, Duolingo.__init__                                *)
(***************************************************************************)
\* _set_username: without a credential it raises RuntimeError (lines 54-55).
\* Otherwise GET the profile by id and read json()['username'] (any failure
\* of that read raises 'Could not get username'; the status is not looked
\* at).  A token decodes to a subject here.  self.jwt is jwtArg.
SetUsername ==
    /\ pc = "new"
    /\ IF ~HasCredential(jwtArg)
         THEN pc' = "failed" /\ outcome' = "RuntimeError" /\ UNCHANGED log
         ELSE \E r \in Responses :
                /\ log' = <<Req("GET_user_by_id", r)>>
                /\ IF ~r.sent
                     THEN pc' = "failed" /\ outcome' = "ConnectionError"
                     ELSE IF ~r.json
                       THEN pc' = "failed" /\ outcome' = "CouldNotGetUsername"
                       ELSE pc' = "ctor_probe" /\ outcome' = "none"
    /\ cur' = [op |-> "construct", abbr |-> "none", wasActive |-> FALSE,
               hadOrder |-> FALSE]
    /\ UNCHANGED <<srvActive, user_data, authProbe, result>>
    /\ UNCHANGED <<orderVars, vocabVars, manifestVars, xpVars, requestVars, concVars, pluginVars>>

\* if not self._check_authentication(): raise DuolingoException(...)
AuthProbe ==
    /\ pc = "ctor_probe"
    /\ \E r \in Responses :
        /\ log' = Append(log, Req("GET_user", r))
        /\ IF ~r.sent
             THEN /\ pc' = "failed" /\ outcome' = "ConnectionError"
                  /\ UNCHANGED authProbe
             ELSE /\ authProbe' = r.st
                  /\ IF CheckAuthentication(r)
                       THEN pc' = "ctor_load" /\ outcome' = "none"
                       ELSE pc' = "failed" /\ outcome' = "UnableToAuthenticate"
    /\ UNCHANGED <<srvActive, user_data, cur, result>>
    /\ UNCHANGED <<orderVars, vocabVars, manifestVars, xpVars, requestVars, concVars, pluginVars>>

\* self.user_data = Struct(**self._get_data())
InitialLoad ==
    /\ pc = "ctor_load"
    /\ \E r \in Responses :
        LET g == GetData(r, srvActive) IN
        /\ log' = Append(log, Req("GET_user", r))
        /\ IF g.raised # "none"
             THEN pc' = "failed" /\ outcome' = g.raised /\ UNCHANGED user_data
             ELSE /\ pc' = "idle" /\ outcome' = "ok"
                  /\ user_data' = ReplaceSnapshot(user_data, g.doc)
    /\ UNCHANGED <<srvActive, authProbe, cur, result>>
    /\ UNCHANGED <<orderVars, vocabVars, manifestVars, xpVars, requestVars, concVars, pluginVars>>

(***************************************************************************)
(* Session: the language switch and the per-language accessors             *)
(***************************************************************************)
\* The caller invokes an operation on the constructed client.  An accessor
\* that ensures the active language tests _is_current_language first.
Call(op, abbr) ==
    /\ pc = "idle"
    /\ cur' = [op |-> op, abbr |-> abbr,
               wasActive |-> abbr \in Keys(user_data),
               hadOrder |-> HasOrder(user_data)]
    /\ log' = << >>
    /\ outcome' = "none"
    /\ result' = "none"
    /\ pc' = IF op = "switch_active_language" THEN "sw_post"
             ELSE IF EnsuresActive(op) /\ ~IsCurrentLanguage(user_data, abbr)
               THEN "sw_post"
               ELSE AfterEnsure(op)
    /\ UNCHANGED <<srvActive, user_data, authProbe>>
    /\ UNCHANGED <<orderVars, vocabVars, manifestVars, xpVars, requestVars, concVars, pluginVars>>

\* _switch_language, lines 107-110: the POST and raise_for_status.  The platform
\* either honours the request or silently ignores it; it honours only
\* requests it answers with success.
SwitchPost ==
    /\ pc = "sw_post"
    /\ \E r \in Responses, honoured \in BOOLEAN :
        /\ honoured => (r.sent /\ r.st = 200)
        /\ srvActive' = IF honoured THEN cur.abbr ELSE srvActive
        /\ log' = Append(log, Req("POST_switch_language", r))
        /\ IF ~r.sent
             THEN pc' = "idle" /\ outcome' = "ConnectionError"
             ELSE IF RaiseForStatus(r.st)
               THEN pc' = "idle" /\ outcome' = "HTTPError"
               ELSE pc' = "sw_reload" /\ outcome' = "none"
    /\ UNCHANGED <<user_data, authProbe, cur, result>>
    /\ UNCHANGED <<orderVars, vocabVars, manifestVars, xpVars, requestVars, concVars, pluginVars>>

\* _switch_language, lines 112-115: reload the snapshot, then verify.
SwitchReload ==
    /\ pc = "sw_reload"
    /\ \E r \in Responses :
        LET g == GetData(r, srvActive) IN
        /\ log' = Append(log, Req("GET_user", r))
        /\ IF g.raised # "none"
             THEN pc' = "idle" /\ outcome' = g.raised /\ UNCHANGED user_data
             ELSE /\ user_data' = ReplaceSnapshot(user_data, g.doc)
                  /\ IF ~IsCurrentLanguage(user_data', cur.abbr)
                       THEN pc' = "idle" /\ outcome' = "FailedToSwitchLanguage"
                       ELSE IF cur.op = "switch_active_language"
                         THEN pc' = "idle" /\ outcome' = "ok"
                         ELSE pc' = AfterEnsure(cur.op) /\ outcome' = "none"
    /\ UNCHANGED <<srvActive, authProbe, cur, result>>
    /\ UNCHANGED <<orderVars, vocabVars, manifestVars, xpVars, requestVars, concVars, pluginVars>>

\* The accessor's read of self.user_data.language_data[abbr]: KeyError when
\* abbr is not a key.
ReadLanguageData ==
    /\ pc = "read"
    /\ IF cur.abbr \in Keys(user_data)
         THEN /\ outcome' = "ok"
              /\ result' = user_data.language_data[cur.abbr].language
         ELSE /\ outcome' = "KeyError"
              /\ result' = "none"
    /\ pc' = "idle"
    /\ UNCHANGED <<srvActive, user_data, authProbe, cur, log>>
    /\ UNCHANGED <<orderVars, vocabVars, manifestVars, xpVars, requestVars, concVars, pluginVars>>

\* _compute_dependency_order_func applied to the skills of the cached
\* snapshot: every skill gets its dependency_order written in place.
ComputeOrders ==
    /\ pc = "idle"
    /\ \E k \in Keys(user_data) : ~user_data.language_data[k].ordered
    /\ user_data' =
          [user_data EXCEPT !.language_data =
              [k \in Keys(user_data) |-> [@[k] EXCEPT !.ordered = TRUE]]]
    /\ UNCHANGED <<pc, srvActive, authProbe, cur, log, outcome, result>>
    /\ UNCHANGED <<orderVars, vocabVars, manifestVars, xpVars, requestVars, concVars, pluginVars>>

(***************************************************************************)
(* Session: get_vocabulary, its requests                                   *)
(***************************************************************************)
MaxLexemePosts == 1

NumLexemePosts ==
    Cardinality({i \in 1..Len(log) : log[i].req = "POST_learned_lexemes"})

\* line 387: _get_data_by_user_id()["currentCourse"]["pathSectioned"]; 404
\* raises 'User not found', otherwise get.json().  The course served is the
\* one of the platform's active language (kept in result); the manifest is
\* built from it without further requests.
VocabCourse ==
    /\ pc = "vocab_course"
    /\ \E r \in Responses :
        /\ log' = Append(log, Req("GET_current_course", r))
        /\ IF ~r.sent
             THEN pc' = "idle" /\ outcome' = "ConnectionError" /\ UNCHANGED result
             ELSE IF r.st = 404
               THEN pc' = "idle" /\ outcome' = "UserNotFound" /\ UNCHANGED result
               ELSE IF ~r.json
                 THEN /\ pc' = "idle" /\ outcome' = "JSONDecodeError"
                      /\ UNCHANGED result
                 ELSE pc' = "vocab_page" /\ outcome' = "none" /\ result' = srvActive
    /\ UNCHANGED <<srvActive, user_data, authProbe, cur>>
    /\ UNCHANGED <<orderVars, vocabVars, manifestVars, xpVars, requestVars, concVars, pluginVars>>

\* lines 429-444: one learned-lexemes POST; more says whether the response
\* leaves len(data) below totalLexemes.
VocabPage ==
    /\ pc = "vocab_page"
    /\ NumLexemePosts < MaxLexemePosts
    /\ \E r \in Responses, more \in BOOLEAN :
        /\ log' = Append(log, Req("POST_learned_lexemes", r))
        /\ IF ~r.sent
             THEN pc' = "idle" /\ outcome' = "ConnectionError"
             ELSE IF ~r.json
               THEN pc' = "idle" /\ outcome' = "JSONDecodeError"
               ELSE IF more
                 THEN pc' = "vocab_page" /\ outcome' = "none"
                 ELSE pc' = "idle" /\ outcome' = "ok"
    /\ UNCHANGED <<srvActive, user_data, authProbe, cur, result>>
    /\ UNCHANGED <<orderVars, vocabVars, manifestVars, xpVars, requestVars, concVars, pluginVars>>

(***************************************************************************)
(* Skill ordering: _compute_dependency_order_func and _get_skill_ordinal   *)
(***************************************************************************)
\* Skill names.
Names == {"A", "B", "C"}

\* Longest dependencies_name list drawn for a skill.
MaxDeps == 2

\* compute_orders calls made on one snapshot.
MaxCalls == 2

\* "dependency_order" not in skill: the key is absent.
Unset == 0

\* Lists of distinct names of length at most k.
ListsUpTo(S, k) ==
    {q \in UNION {[1..n -> S] : n \in 0..k} :
        \A i, j \in 1..Len(q) : i # j => q[i] # q[j]}

\* max(list)
Max(values) ==
    LET S == Range(values) IN CHOOSE x \in S : \A y \in S : y <= x

\* skill['dependency_order'] = value, on the skill record shared by the list
\* and skills_dict; the assignment is logged with the value it overwrites.
SetOrder(m, name, value) ==
    [order |-> [m.order EXCEPT ![name] = value],
     writes |-> Append(m.writes,
                       [name |-> name, old |-> m.order[name], new |-> value])]

\* line 165: the chain the loop error reports, breadcrumbs + [skill['name']]
\* (faulty variant: the repeated name is left out)
LoopChainMutant(breadcrumbs, name) == breadcrumbs
LoopChain(breadcrumbs, name) == Append(breadcrumbs, name)

\* lines 167-168: return skill["dependency_order"]
\* (faulty variant: a visited skill is reported at depth 1)
MemoizedOrderMutant(m, name) == 1
MemoizedOrder(m, name) == m.order[name]

\* lines 175-184: order = 1 + max([...])
\* (faulty variant: only the first dependency counts)
OrderFromDependenciesMutant(values) == 1 + values[1]
OrderFromDependencies(values) == 1 + Max(values)

\* _get_skill_ordinal(skills_dict, skill, breadcrumbs).  d is skills_dict
\* (name -> dependencies_name), m the dependency_order fields and the log of
\* assignments.  The result carries m as the call leaves it, whether the
\* loop error was raised (and its chain), and the value returned.
RECURSIVE GetSkillOrdinal(_, _, _, _)
RECURSIVE OrdinalsOf(_, _, _, _, _, _)

\* The list comprehension of lines 176-183: one recursive call per dependency,
\* left to right; an exception ends it at once.
OrdinalsOf(d, m, names, i, new_breadcrumbs, values) ==
    IF i > Len(names)
      THEN [m |-> m, raised |-> FALSE, chain |-> << >>, values |-> values]
      ELSE LET r == GetSkillOrdinal(d, m, names[i], new_breadcrumbs) IN
           IF r.raised
             THEN [m |-> r.m, raised |-> TRUE, chain |-> r.chain,
                   values |-> values]
             ELSE OrdinalsOf(d, r.m, names, i + 1, new_breadcrumbs,
                             Append(values, r.value))

GetSkillOrdinal(d, m, name, breadcrumbs) ==
    IF InSeq(name, breadcrumbs)
      THEN [m |-> m, raised |-> TRUE,
            chain |-> LoopChain(breadcrumbs, name), value |-> 0]
    ELSE IF m.order[name] # Unset
      THEN [m |-> m, raised |-> FALSE, chain |-> << >>,
            value |-> MemoizedOrder(m, name)]
    ELSE IF d[name] = << >>
      THEN [m |-> SetOrder(m, name, 1), raised |-> FALSE, chain |-> << >>,
            value |-> 1]
    ELSE LET r == OrdinalsOf(d, m, d[name], 1, Append(breadcrumbs, name), << >>)
         IN  IF r.raised
               THEN [m |-> r.m, raised |-> TRUE, chain |-> r.chain, value |-> 0]
               ELSE LET o == OrderFromDependencies(r.values) IN
                    [m |-> SetOrder(r.m, name, o), raised |-> FALSE,
                     chain |-> << >>, value |-> o]

\* compute_orders is called on the snapshot's skill list: lines 154-156 build
\* skills_dict, which maps each name to its skill.
StartCompute ==
    /\ opc \in {"idle", "returned", "raised"}
    /\ calls < MaxCalls
    /\ opc' = "loop"
    /\ oidx' = 1
    /\ chain' = << >>
    /\ writes' = << >>
    /\ UNCHANGED <<skills, deps, order, calls>>
    /\ UNCHANGED <<sessionVars, vocabVars, manifestVars, xpVars, requestVars, concVars, pluginVars>>

\* One iteration of the loop of lines 158-159:
\*   skill['dependency_order'] = Duolingo._get_skill_ordinal(skills_dict, skill, [])
\* The loop error leaves the function; the assignments made before it stay.
ComputeStep ==
    /\ opc = "loop"
    /\ LET name == skills[oidx]
           r == GetSkillOrdinal(deps, [order |-> order, writes |-> << >>],
                                name, << >>)
       IN  IF r.raised
             THEN /\ opc' = "raised"
                  /\ chain' = r.chain
                  /\ order' = r.m.order
                  /\ writes' = r.m.writes
                  /\ calls' = calls + 1
                  /\ UNCHANGED oidx
             ELSE LET m2 == SetOrder(r.m, name, r.value) IN
                  /\ order' = m2.order
                  /\ writes' = m2.writes
                  /\ UNCHANGED chain
                  /\ IF oidx = Len(skills)
                       THEN opc' = "returned" /\ calls' = calls + 1
                            /\ UNCHANGED oidx
                       ELSE opc' = "loop" /\ oidx' = oidx + 1
                            /\ UNCHANGED calls
    /\ UNCHANGED <<skills, deps>>
    /\ UNCHANGED <<sessionVars, vocabVars, manifestVars, xpVars, requestVars, concVars, pluginVars>>

(***************************************************************************)
(* Vocabulary pagination: the loop of get_vocabulary, lines 425-445        *)
(***************************************************************************)
\* Most lexemes one page carries.
MaxPage == 2

\* Largest pagination.totalLexemes the platform reports.
MaxTotal == 3

\* Largest pagination.nextStartIndex the platform reports.
MaxIndex == 3

\* Requests after which the model stops following the loop (the code has no
\* such limit).
MaxRequests == 3

\* The learnedLexemes of a page of k lexemes served at a cursor: the lexemes
\* at positions cursor+1 .. cursor+k of the platform's alphabetical list.
Page(cursor, k) == [j \in 1..k |-> cursor + j]

\* line 440: if len(data) >= totalLexemes: break
\* (faulty variant: stops one lexeme short)
StopTestMutant(n, total) == n + 1 >= total
StopTest(n, total) == n >= total

\* lines 425-426: current_index = 0; data = []
StartPagination ==
    /\ vpc = "start"
    /\ vpc' = "loop"
    /\ current_index' = 0
    /\ data' = << >>
    /\ UNCHANGED <<totalLexemes, requests, conforming>>
    /\ UNCHANGED <<sessionVars, orderVars, manifestVars, xpVars, requestVars, concVars, pluginVars>>

\* What a conforming platform answers at the cursor: the same total on every
\* page, a non-empty page (when there is anything to serve) that stays within
\* the total, and the position after the page as nextStartIndex.
ConformingPage(k, total, nextStartIndex) ==
    /\ requests # << >> => total = totalLexemes
    /\ current_index + k <= total
    /\ k >= 1 \/ total = 0
    /\ nextStartIndex = current_index + k

\* lines 443-444: current_index = nextStartIndex
\* (faulty variant: the cursor is not advanced)
NextCursorMutant(cursor, nextStartIndex) == cursor
NextCursor(cursor, nextStartIndex) == nextStartIndex

\* The body of the while loop, lines 430-444, on one response: extend data,
\* stop or take nextStartIndex.  ok = FALSE is a transport failure or a body
\* that is not the JSON document: the call raises.
LoopIteration(ok, k, total, nextStartIndex) ==
    /\ conforming' = (conforming /\ ok /\ ConformingPage(k, total, nextStartIndex))
    /\ IF ~ok
         THEN /\ vpc' = "raised"
              /\ UNCHANGED <<data, current_index, totalLexemes>>
         ELSE /\ data' = data \o Page(current_index, k)
              /\ totalLexemes' = total
              /\ IF StopTest(Len(data'), total)
                   THEN vpc' = "returned" /\ UNCHANGED current_index
                   ELSE /\ vpc' = "loop"
                        /\ current_index' = NextCursor(current_index, nextStartIndex)

\* One iteration of the while loop: POST the learned-lexemes endpoint at the
\* cursor (the cursor is recorded in requests) and handle the response.
FetchPage ==
    /\ vpc = "loop"
    /\ Len(requests) < MaxRequests
    /\ requests' = Append(requests, current_index)
    /\ \E ok \in BOOLEAN, k \in 0..MaxPage, total \in 0..MaxTotal,
          nextStartIndex \in 0..MaxIndex :
        LoopIteration(ok, k, total, nextStartIndex)
    /\ UNCHANGED <<sessionVars, orderVars, manifestVars, xpVars, requestVars, concVars, pluginVars>>

\* The same iteration once requests holds MaxRequests cursors: the loop has
\* no limit of its own, so it goes on; only the record of cursors is full.
FetchPageOn ==
    /\ vpc = "loop"
    /\ Len(requests) >= MaxRequests
    /\ UNCHANGED requests
    /\ \E ok \in BOOLEAN, k \in 0..MaxPage, total \in 0..MaxTotal,
          nextStartIndex \in 0..MaxIndex :
        LoopIteration(ok, k, total, nextStartIndex)
    /\ UNCHANGED <<sessionVars, orderVars, manifestVars, xpVars, requestVars, concVars, pluginVars>>

(***************************************************************************)
(* get_vocabulary: the progressed-skills manifest (lines 387-422)          *)
(***************************************************************************)
MaxSessions == 1

\* pathLevelClientData: a block carrying a single skill id, a list of skill
\* ids, or neither key.
NoClientData == [k \in {} |-> 0]

ClientData ==
    {[skillId |-> "s1"], [skillIds |-> <<"s2", "s3">>], [skillIds |-> << >>],
     NoClientData}

Levels ==
    {[type |-> "skill", pathLevelClientData |-> cd, finishedSessions |-> n] :
        cd \in ClientData, n \in 0..MaxSessions}
    \cup {[type |-> "chest", pathLevelClientData |-> [skillId |-> "s1"],
           finishedSessions |-> 0],
          [type |-> "unit_review",
           pathLevelClientData |-> [skillIds |-> <<"s2", "s3">>],
           finishedSessions |-> 0]}

Unit(levels) == [levels |-> levels]

\* Sequences over S of length at most two.
UpToTwo(S) == {<< >>} \cup {<<x>> : x \in S} \cup (S \X S)

ShortUnits == {Unit(<< >>)} \cup {Unit(<<l>>) : l \in Levels}
LongUnits == {Unit(ls) : ls \in UpToTwo(Levels)}

\* A section: its units and completedUnits, the number of leading units the
\* user has completed (never more than the section has).
Section(units, completedUnits) ==
    [units |-> units, completedUnits |-> completedUnits]

\* lines 403-409, 414-420: new_obj
NewObj(skillId, finishedSessions) ==
    [finishedLevels |-> 1,
     finishedSessions |-> finishedSessions,
     skillId |-> [id |-> skillId]]

\* line 397: if level_type in ["chest", "unit_review"]: continue
\* (faulty variant: only chests are skipped)
SkipsLevelMutant(level_type) == level_type = "chest"
SkipsLevel(level_type) == level_type \in {"chest", "unit_review"}

\* lines 412-421: for skillId in skillIds: append new_obj
RECURSIVE EntriesOfIds(_, _)
EntriesOfIds(skillIds, finishedSessions) ==
    IF skillIds = << >>
      THEN << >>
      ELSE <<NewObj(Head(skillIds), finishedSessions)>>
             \o EntriesOfIds(Tail(skillIds), finishedSessions)

\* lines 395-421: what one level appends to progressed_skills
LevelEntries(l) ==
    IF SkipsLevel(l.type)
      THEN << >>
      ELSE IF "skillId" \in DOMAIN l.pathLevelClientData
        THEN <<NewObj(l.pathLevelClientData.skillId, l.finishedSessions)>>
        ELSE IF "skillIds" \in DOMAIN l.pathLevelClientData
          THEN EntriesOfIds(l.pathLevelClientData.skillIds, l.finishedSessions)
          ELSE << >>

\* line 394: for l in levels
RECURSIVE LevelsEntries(_)
LevelsEntries(levels) ==
    IF levels = << >>
      THEN << >>
      ELSE LevelEntries(Head(levels)) \o LevelsEntries(Tail(levels))

\* lines 391-393: for i in range(completedUnits): unit = units[i]
\* (i counts from 1 here)
RECURSIVE UnitsEntries(_, _, _)
UnitsEntries(units, i, completedUnits) ==
    IF i > completedUnits
      THEN << >>
      ELSE LevelsEntries(units[i].levels)
             \o UnitsEntries(units, i + 1, completedUnits)

\* lines 388-422: for section in current_courses
RECURSIVE ProgressedSkills(_)
ProgressedSkills(sections) ==
    IF sections = << >>
      THEN << >>
      ELSE UnitsEntries(Head(sections).units, 1, Head(sections).completedUnits)
             \o ProgressedSkills(Tail(sections))

\* lines 388-422 as one step of get_vocabulary: the manifest is built from
\* the course path fetched at line 387.
BuildManifest ==
    /\ mpc = "fetched"
    /\ progressed_skills' = ProgressedSkills(current_courses)
    /\ mpc' = "built"
    /\ UNCHANGED current_courses
    /\ UNCHANGED <<sessionVars, orderVars, vocabVars, xpVars, requestVars, concVars, pluginVars>>

(***************************************************************************)
(* get_daily_xp_progress (lines 447-479)                                   *)
(***************************************************************************)
\* Time is counted in whole ticks; a calendar day has DayLen of them.
DayLen == 3
MaxTime == 2 * DayLen

\* The host's zone: wall clock = epoch + utcoffset, and from the instant
\* transition on the offset is utcoffset + shift (shift -1: clocks are set
\* back and one wall-clock tick repeats; shift 1: clocks are set forward and
\* one wall-clock tick is skipped; shift 0: a fixed offset).
Zones ==
    {[utcoffset |-> 1, shift |-> 0, transition |-> 0]} \cup
    {[utcoffset |-> 1, shift |-> sh, transition |-> t] :
        sh \in {-1, 1}, t \in 0..MaxTime}

UtcOffset(z, ts) ==
    IF ts < z.transition THEN z.utcoffset ELSE z.utcoffset + z.shift

\* datetime.fromtimestamp(ts): the naive local time of the instant; fold is
\* 1 on the second occurrence of a repeated wall-clock time.
FromTimestamp(z, ts) ==
    [wall |-> ts + UtcOffset(z, ts),
     fold |-> IF /\ ts >= z.transition
                 /\ ts + UtcOffset(z, ts) < z.transition + z.utcoffset
                THEN 1 ELSE 0]

\* naive.timestamp(): the instant of a naive local time.  A repeated wall
\* time is resolved by fold; a skipped one takes the offset before the
\* change when fold is 0 and the offset after it when fold is 1.
Timestamp(z, dt) ==
    LET before == dt.wall - z.utcoffset
        after  == dt.wall - (z.utcoffset + z.shift)
    IN  IF before < z.transition /\ after >= z.transition
          THEN (IF dt.fold = 0 THEN before ELSE after)
          ELSE IF before < z.transition THEN before
          ELSE IF after >= z.transition THEN after
          ELSE (IF dt.fold = 0 THEN before ELSE after)

\* line 465: datetime.fromordinal(datetime.today().date().toordinal())
Midnight(z, t) ==
    [wall |-> (FromTimestamp(z, t).wall \div DayLen) * DayLen, fold |-> 0]

\* naive + timedelta: wall-clock arithmetic; the result has fold 0
PlusDelta(dt, delta) == [wall |-> dt.wall + delta, fold |-> 0]

\* line 469: min(midnight - reported_midnight, timedelta(0))
TimeDiscrepancy(midnight, reported_midnight) ==
    IF midnight.wall - reported_midnight.wall < 0
      THEN midnight.wall - reported_midnight.wall
      ELSE 0

\* lines 463-470; round() of a whole number of ticks is that number
UpdateCutoff(z, t, reported_timestamp) ==
    LET reported_midnight == FromTimestamp(z, reported_timestamp)
        midnight == Midnight(z, t)
        time_discrepancy == TimeDiscrepancy(midnight, reported_midnight)
    IN  Timestamp(z, PlusDelta(reported_midnight, time_discrepancy))

\* line 473: lesson['time'] > update_cutoff
\* (faulty variant: a lesson at the cutoff is kept)
IsTodayMutant(lesson, cutoff) == lesson.time >= cutoff
IsToday(lesson, cutoff) == lesson.time > cutoff

\* lines 472-473: the list comprehension
RECURSIVE LessonsAfter(_, _)
LessonsAfter(xpGains, cutoff) ==
    IF xpGains = << >>
      THEN << >>
      ELSE (IF IsToday(Head(xpGains), cutoff) THEN <<Head(xpGains)>> ELSE << >>)
             \o LessonsAfter(Tail(xpGains), cutoff)

\* line 478: sum(x['xp'] for x in lessons)
RECURSIVE SumXp(_)
SumXp(lessons) ==
    IF lessons = << >> THEN 0 ELSE Head(lessons).xp + SumXp(Tail(lessons))

\* The documents the platform may answer at line 454: empty, or xpGoal,
\* xpGains (up to two lessons) and streakData.updatedTimestamp.
NoProgress == [empty |-> TRUE, xpGoal |-> 0, xpGains |-> << >>,
               updatedTimestamp |-> 0]

Lessons == [time : 0..MaxTime, xp : {5, 7}]

ProgressDocs ==
    {NoProgress} \cup
    [empty : {FALSE}, xpGoal : {10, 20}, xpGains : UpToTwo(Lessons),
     updatedTimestamp : 0..MaxTime]

NoXpResult == [xp_goal |-> 0, lessons_today |-> << >>, xp_today |-> 0]

\* get_daily_xp_progress with the document the platform answers.
GetDailyXpProgress ==
    /\ xpc = "start"
    /\ \E doc \in ProgressDocs :
        /\ daily_progress' = doc
        /\ IF doc.empty
             THEN /\ xpc' = "raised"
                  /\ UNCHANGED <<update_cutoff, xp_result>>
             ELSE /\ xpc' = "done"
                  /\ update_cutoff' = UpdateCutoff(zone, now, doc.updatedTimestamp)
                  /\ xp_result' =
                       [xp_goal |-> doc.xpGoal,
                        lessons_today |-> LessonsAfter(doc.xpGains, update_cutoff'),
                        xp_today |-> SumXp(LessonsAfter(doc.xpGains, update_cutoff'))]
    /\ UNCHANGED <<zone, now>>
    /\ UNCHANGED <<sessionVars, orderVars, vocabVars, manifestVars, requestVars, concVars, pluginVars>>

(***************************************************************************)
(* _make_req (lines 69-81)                                                 *)
(***************************************************************************)
\* A credential: None, the empty string, or a token.
Tokens == {"jwtA", "jwtB", "jwtC"}

Credentials == {NoneJwt, ""} \cup Tokens

Urls ==
    {"users_by_id", "users_by_name", "switch_language", "learned_lexemes",
     "following"}

\* The data argument: None (given = FALSE), or a dictionary with the given
\* keys, possibly none.
BodyKeys == {"learning_language", "lastTotalLexemeCount", "progressedSkills"}

NoData == [given |-> FALSE, keys |-> {}]

DataArgs == {NoData} \cup [given : {TRUE}, keys : SUBSET BodyKeys]

\* Python truth value of data: None and the empty dictionary are false.
Truthy(body) == body.given /\ body.keys # {}

NoPrepped == [method |-> "none", url |-> "none", json |-> NoData,
              headers |-> [k \in {} |-> ""]]

\* lines 70-73: the headers
Headers(jwt) ==
    IF jwt # NoneJwt
      THEN [k \in {"Authorization", "User-Agent"} |->
               IF k = "Authorization" THEN jwt ELSE "_USER_AGENT"]
      ELSE [k \in {"User-Agent"} |-> "_USER_AGENT"]

\* lines 74-79: requests.Request('POST' if data else 'GET', url, json=data,
\* headers=headers, ...).  The Authorization value is kept as the credential
\* that follows 'Bearer '.
MakeReq(jwt, url, body) ==
    [method |-> IF Truthy(body) THEN "POST" ELSE "GET",
     url |-> url,
     json |-> body,
     headers |-> Headers(jwt)]

\* _make_req called on a client: the request is prepared and sent.
SendReq ==
    /\ rpc = "start"
    /\ prepped' = MakeReq(jwtArg, urlArg, dataArg)
    /\ rpc' = "sent"
    /\ UNCHANGED <<jwtArg, urlArg, dataArg>>
    /\ UNCHANGED <<sessionVars, orderVars, vocabVars, manifestVars, xpVars, concVars, pluginVars>>

(***************************************************************************)
(* Two callers on one shared client, no locking                            *)
(***************************************************************************)
Callers == {"t1", "t2"}

\* The accessors the callers use: one with the ensure-active test, one
\* without.
CallerOps == {"get_known_topics", "get_known_words"}

\* self.user_data.language_data[abbr]['skills']: the entry of abbr, KeyError
\* when abbr is not a key.
\* (faulty variant: the entry of the snapshot's language is read, whatever
\* abbr is)
ReadSkillsMutant(ud, abbr) ==
    [raised |-> "none",
     value |-> ud.language_data[CHOOSE k \in Keys(ud) : TRUE].language]
ReadSkills(ud, abbr) ==
    IF abbr \in Keys(ud)
      THEN [raised |-> "none", value |-> ud.language_data[abbr].language]
      ELSE [raised |-> "KeyError", value |-> "none"]

\* Caller t ends its call.
Ends(t, how, value) ==
    /\ tpc' = [tpc EXCEPT ![t] = "idle"]
    /\ tout' = [tout EXCEPT ![t] = how]
    /\ tres' = [tres EXCEPT ![t] = value]

\* Caller t goes on to position p.
GoesOn(t, p) ==
    /\ tpc' = [tpc EXCEPT ![t] = p]
    /\ UNCHANGED <<tout, tres>>

SharedUnchanged == UNCHANGED <<pc, authProbe, cur, log, outcome, result>>

OthersUnchanged ==
    UNCHANGED <<orderVars, vocabVars, manifestVars, xpVars, requestVars,
                pluginVars>>

\* Caller t calls an accessor: the _is_current_language test of a guarded
\* accessor reads the shared snapshot.
CallerCall(t, op, abbr) ==
    /\ tpc[t] = "idle"
    /\ targ' = [targ EXCEPT ![t] = [op |-> op, abbr |-> abbr]]
    /\ tverified' = [tverified EXCEPT ![t] = FALSE]
    /\ tpc' = [tpc EXCEPT ![t] =
                 IF EnsuresActive(op) /\ ~IsCurrentLanguage(user_data, abbr)
                   THEN "sw_post" ELSE "read"]
    /\ tout' = [tout EXCEPT ![t] = "none"]
    /\ tres' = [tres EXCEPT ![t] = "none"]
    /\ UNCHANGED <<tdoc, user_data, srvActive>>
    /\ SharedUnchanged /\ OthersUnchanged

\* lines 107-110 run by caller t
CallerSwitchPost(t) ==
    /\ tpc[t] = "sw_post"
    /\ \E r \in Responses, honoured \in BOOLEAN :
        /\ honoured => (r.sent /\ r.st = 200)
        /\ srvActive' = IF honoured THEN targ[t].abbr ELSE srvActive
        /\ IF ~r.sent THEN Ends(t, "ConnectionError", "none")
           ELSE IF RaiseForStatus(r.st) THEN Ends(t, "HTTPError", "none")
           ELSE GoesOn(t, "sw_get")
    /\ UNCHANGED <<targ, tdoc, tverified, user_data>>
    /\ SharedUnchanged /\ OthersUnchanged

\* line 112, right-hand side: self._get_data()
CallerSwitchGet(t) ==
    /\ tpc[t] = "sw_get"
    /\ \E r \in Responses :
        LET g == GetData(r, srvActive) IN
        IF g.raised # "none"
          THEN Ends(t, g.raised, "none") /\ UNCHANGED tdoc
          ELSE GoesOn(t, "sw_install") /\ tdoc' = [tdoc EXCEPT ![t] = g.doc]
    /\ UNCHANGED <<targ, tverified, user_data, srvActive>>
    /\ SharedUnchanged /\ OthersUnchanged

\* line 112, the assignment to self.user_data
CallerSwitchInstall(t) ==
    /\ tpc[t] = "sw_install"
    /\ user_data' = ReplaceSnapshot(user_data, tdoc[t])
    /\ GoesOn(t, "sw_verify")
    /\ UNCHANGED <<targ, tdoc, tverified, srvActive>>
    /\ SharedUnchanged /\ OthersUnchanged

\* lines 114-115: the verification reads the shared snapshot
CallerSwitchVerify(t) ==
    /\ tpc[t] = "sw_verify"
    /\ IF ~IsCurrentLanguage(user_data, targ[t].abbr)
         THEN Ends(t, "FailedToSwitchLanguage", "none") /\ UNCHANGED tverified
         ELSE GoesOn(t, "read") /\ tverified' = [tverified EXCEPT ![t] = TRUE]
    /\ UNCHANGED <<targ, tdoc, user_data, srvActive>>
    /\ SharedUnchanged /\ OthersUnchanged

\* The accessor's read of the shared snapshot.
CallerRead(t) ==
    /\ tpc[t] = "read"
    /\ LET got == ReadSkills(user_data, targ[t].abbr) IN
         IF got.raised # "none"
           THEN Ends(t, got.raised, "none")
           ELSE Ends(t, "ok", got.value)
    /\ UNCHANGED <<targ, tdoc, tverified, user_data, srvActive>>
    /\ SharedUnchanged /\ OthersUnchanged

(***************************************************************************)
(* plugin.py: sync_duolingo, login_and_retrieve_vocab, on_retrieve_success, *)
(* add_vocab                                                               *)
(***************************************************************************)
MaxWords == 2
MaxCards == 2

\* Texts of vocabulary entries; the platform's vocabulary may repeat a text.
Words == {"uno", "dos", "tres"}

SeqsUpTo(S, k) == UNION {[1..n -> S] : n \in 0..k}

\* How Duolingo(jwt=jwt) can end: the outcomes of construction in the
\* session model.
ConstructOutcomes(jwt) ==
    IF ~HasCredential(jwt)
      THEN {"RuntimeError"}
      ELSE {"ok", "ConnectionError", "CouldNotGetUsername",
            "UnableToAuthenticate", "UserNotFound", "JSONDecodeError"}

\* plugin.py line 51: VocabRetrieveResult(success=False, words_to_add=[])
NoRetrieveResult ==
    [success |-> FALSE, words_to_add |-> << >>, language_string |-> "<None>"]

\* plugin.py line 116: AddVocabResult()
NoAddResult == [notes_added |-> 0, problem_vocabs |-> << >>]

\* plugin.py lines 91-96: the entries of the vocabulary whose id is not
\* among the notes already imported.
RECURSIVE WordsToAdd(_, _)
WordsToAdd(vocabulary_response, gids_to_notes) ==
    IF vocabulary_response = << >>
      THEN << >>
      ELSE (IF Head(vocabulary_response) \notin gids_to_notes
              THEN <<Head(vocabulary_response)>> ELSE << >>)
             \o WordsToAdd(Tail(vocabulary_response), gids_to_notes)

\* plugin.py line 189: if not retrieve_result.success: return
\* (faulty variant: the result is used whether or not it is a success)
ProceedsMutant(r) == TRUE
Proceeds(r) == r.success

\* plugin.py line 159: if num_cards
\* (faulty variant: a single card does not count)
ProducedCardMutant(num_cards) == num_cards > 1
ProducedCard(num_cards) == num_cards # 0

PluginRest == UNCHANGED <<sessionVars, orderVars, vocabVars, manifestVars,
                          xpVars, requestVars, concVars>>

\* sync_duolingo: the notice, then the login dialog, which returns the token
\* of the jwt_token cookie, or None when it was closed before, or raises
\* TypeError; then the login operation is started.
SyncDuolingo ==
    /\ ppc = "menu"
    /\ ui' = Append(ui, "showWarning_notice")
    /\ \E t \in {NoneJwt, "", "jwtA", "TypeError"} :
        IF t = "TypeError"
          THEN ppc' = "done" /\ UNCHANGED token
          ELSE ppc' = "login" /\ token' = t
    /\ UNCHANGED <<ctorOutcome, vocabRequested, retrieve_result, add_result,
                   words_processed, cards>>
    /\ PluginRest

\* login_and_retrieve_vocab(jwt): only requests' ConnectionError raised by
\* Duolingo(jwt=jwt) is caught; any other exception, and any exception of the
\* calls after the try block, ends the operation without a result.
LoginAndRetrieveVocab ==
    /\ ppc = "login"
    /\ \E c \in ConstructOutcomes(token) :
        /\ ctorOutcome' = c
        /\ IF c = "ConnectionError"
             THEN /\ ui' = Append(ui, "showWarning_connect")
                  /\ retrieve_result' = NoRetrieveResult
                  /\ ppc' = "retrieved"
                  /\ UNCHANGED vocabRequested
             ELSE IF c # "ok"
               THEN /\ ppc' = "op_failed"
                    /\ UNCHANGED <<ui, retrieve_result, vocabRequested>>
               ELSE /\ vocabRequested' = TRUE
                    /\ UNCHANGED ui
                    /\ \E raised \in BOOLEAN,
                          vocabulary_response \in SeqsUpTo(Words, MaxWords),
                          gids_to_notes \in SUBSET Words :
                        IF raised
                          THEN ppc' = "op_failed" /\ UNCHANGED retrieve_result
                          ELSE /\ ppc' = "retrieved"
                               /\ retrieve_result' =
                                    [success |-> TRUE,
                                     words_to_add |->
                                        WordsToAdd(vocabulary_response, gids_to_notes),
                                     language_string |-> "Spanish"]
    /\ UNCHANGED <<token, add_result, words_processed, cards>>
    /\ PluginRest

\* on_retrieve_success(retrieve_result)
OnRetrieveSuccess ==
    /\ ppc = "retrieved"
    /\ IF ~Proceeds(retrieve_result)
         THEN ppc' = "done" /\ UNCHANGED ui
         ELSE IF retrieve_result.words_to_add = << >>
           THEN ppc' = "done" /\ ui' = Append(ui, "showInfo_no_new_words")
           ELSE /\ ui' = Append(ui, "askUser")
                /\ \E yes \in BOOLEAN :
                    ppc' = IF yes THEN "adding" ELSE "done"
    /\ UNCHANGED <<token, ctorOutcome, vocabRequested, retrieve_result,
                   add_result, words_processed, cards>>
    /\ PluginRest

\* add_vocab, one iteration of the loop over words_to_add: the audio download
\* may raise; mw.col.addNote returns the number of cards.
AddNote ==
    /\ ppc = "adding"
    /\ words_processed < Len(retrieve_result.words_to_add)
    /\ \E downloaded \in BOOLEAN, num_cards \in 0..MaxCards :
        IF ~downloaded
          THEN /\ ppc' = "add_raised"
               /\ UNCHANGED <<add_result, words_processed, cards>>
          ELSE /\ add_result' =
                    IF ProducedCard(num_cards)
                      THEN [add_result EXCEPT !.notes_added = @ + 1]
                      ELSE [add_result EXCEPT !.problem_vocabs =
                              Append(@, retrieve_result.words_to_add[words_processed + 1])]
               /\ words_processed' = words_processed + 1
               /\ cards' = Append(cards, num_cards)
               /\ UNCHANGED ppc
    /\ UNCHANGED <<token, ctorOutcome, vocabRequested, retrieve_result, ui>>
    /\ PluginRest

\* add_vocab returns after the last entry; on_add_success shows the counts.
AddReturn ==
    /\ ppc = "adding"
    /\ words_processed = Len(retrieve_result.words_to_add)
    /\ ppc' = "added"
    /\ ui' = Append(ui, "showInfo_notes_added")
    /\ UNCHANGED <<token, ctorOutcome, vocabRequested, retrieve_result,
                   add_result, words_processed, cards>>
    /\ PluginRest

(***************************************************************************)
(* Specifications                                                          *)
(***************************************************************************)
SessionIdle ==
    /\ pc = "new"
    /\ srvActive = "es"
    /\ user_data = NoUserData
    /\ authProbe = 0
    /\ cur = NoOp
    /\ log = << >>
    /\ outcome = "none"
    /\ result = "none"

OrderIdle ==
    /\ opc = "idle"
    /\ skills = << >>
    /\ deps = [n \in Names |-> << >>]
    /\ order = [n \in Names |-> Unset]
    /\ oidx = 1
    /\ chain = << >>
    /\ writes = << >>
    /\ calls = 0

VocabIdle ==
    /\ vpc = "start"
    /\ data = << >>
    /\ current_index = 0
    /\ totalLexemes = 0
    /\ requests = << >>
    /\ conforming = TRUE

ManifestIdle ==
    /\ mpc = "fetched"
    /\ current_courses = << >>
    /\ progressed_skills = << >>

XpIdle ==
    /\ xpc = "start"
    /\ zone = [utcoffset |-> 1, shift |-> 0, transition |-> 0]
    /\ now = 0
    /\ daily_progress = NoProgress
    /\ update_cutoff = 0
    /\ xp_result = NoXpResult

RequestIdle ==
    /\ rpc = "start"
    /\ jwtArg = "jwtA"
    /\ urlArg = "users_by_id"
    /\ dataArg = NoData
    /\ prepped = NoPrepped

ConcIdle ==
    /\ tpc = [t \in Callers |-> "idle"]
    /\ targ = [t \in Callers |-> [op |-> "none", abbr |-> "none"]]
    /\ tdoc = [t \in Callers |-> NoUserData]
    /\ tout = [t \in Callers |-> "none"]
    /\ tres = [t \in Callers |-> "none"]
    /\ tverified = [t \in Callers |-> FALSE]

PluginIdle ==
    /\ ppc = "menu"
    /\ token = NoneJwt
    /\ ctorOutcome = "none"
    /\ vocabRequested = FALSE
    /\ retrieve_result = NoRetrieveResult
    /\ ui = << >>
    /\ add_result = NoAddResult
    /\ words_processed = 0
    /\ cards = << >>

\* The session before Duolingo(jwt=...) is called with some credential (None
\* and the empty string included); the platform has some active learning
\* language.
Init ==
    /\ pc = "new"
    /\ srvActive \in Langs
    /\ user_data = NoUserData
    /\ authProbe = 0
    /\ cur = NoOp
    /\ log = << >>
    /\ outcome = "none"
    /\ result = "none"
    /\ OrderIdle
    /\ VocabIdle
    /\ ManifestIdle
    /\ XpIdle
    /\ rpc = "start"
    /\ jwtArg \in {NoneJwt, "", "jwtA"}
    /\ urlArg = "users_by_id"
    /\ dataArg = NoData
    /\ prepped = NoPrepped
    /\ ConcIdle
    /\ PluginIdle

Next ==
    \/ SetUsername
    \/ AuthProbe
    \/ InitialLoad
    \/ \E op \in Operations, abbr \in Langs : Call(op, abbr)
    \/ SwitchPost
    \/ SwitchReload
    \/ ReadLanguageData
    \/ ComputeOrders
    \/ VocabCourse
    \/ VocabPage

Spec == Init /\ [][Next]_vars

\* A snapshot's skill list as loaded: every skill without dependency_order,
\* in any list order, its dependencies among the listed skills.
InitOrder ==
    /\ SessionIdle
    /\ VocabIdle
    /\ ManifestIdle
    /\ XpIdle
    /\ RequestIdle
    /\ ConcIdle
    /\ PluginIdle
    /\ opc = "idle"
    /\ skills \in {q \in [1..Cardinality(Names) -> Names] : Range(q) = Names}
    /\ deps \in [Names -> ListsUpTo(Names, MaxDeps)]
    /\ order = [n \in Names |-> Unset]
    /\ oidx = 1
    /\ chain = << >>
    /\ writes = << >>
    /\ calls = 0

NextOrder ==
    \/ StartCompute
    \/ ComputeStep

SpecOrder == InitOrder /\ [][NextOrder]_vars

InitVocab ==
    /\ SessionIdle
    /\ OrderIdle
    /\ VocabIdle
    /\ ManifestIdle
    /\ XpIdle
    /\ RequestIdle
    /\ ConcIdle
    /\ PluginIdle

NextVocab ==
    \/ StartPagination
    \/ FetchPage

SpecVocab == InitVocab /\ [][NextVocab]_vars

\* The loop followed past MaxRequests requests.  get_vocabulary is one
\* synchronous call: while the loop can take a step it takes it.
NextVocabLive ==
    \/ StartPagination
    \/ FetchPage
    \/ FetchPageOn

SpecVocabLive == InitVocab /\ [][NextVocabLive]_vars /\ WF_vars(NextVocabLive)

\* get_vocabulary with the course path of line 387 at hand: one section of up
\* to two units of up to two levels, or two sections of at most one unit of
\* at most one level.
InitManifest ==
    /\ SessionIdle
    /\ OrderIdle
    /\ VocabIdle
    /\ XpIdle
    /\ RequestIdle
    /\ ConcIdle
    /\ PluginIdle
    /\ mpc = "fetched"
    /\ \/ \E us \in UpToTwo(LongUnits) : \E c \in 0..Len(us) :
            current_courses = <<Section(us, c)>>
       \/ \E us1, us2 \in {<< >>} \cup {<<u>> : u \in ShortUnits} :
            \E c1 \in 0..Len(us1), c2 \in 0..Len(us2) :
                current_courses = <<Section(us1, c1), Section(us2, c2)>>
    /\ progressed_skills = << >>

NextManifest ==
    \/ BuildManifest

SpecManifest == InitManifest /\ [][NextManifest]_vars

\* get_daily_xp_progress on a host in some zone at some instant.
InitXp ==
    /\ SessionIdle
    /\ OrderIdle
    /\ VocabIdle
    /\ ManifestIdle
    /\ xpc = "start"
    /\ zone \in Zones
    /\ now \in 0..MaxTime
    /\ daily_progress = NoProgress
    /\ update_cutoff = 0
    /\ xp_result = NoXpResult
    /\ RequestIdle
    /\ ConcIdle
    /\ PluginIdle

NextXp ==
    \/ GetDailyXpProgress

SpecXp == InitXp /\ [][NextXp]_vars

\* _make_req on a constructed client (its credential is a token) with any
\* url and data argument.
InitRequest ==
    /\ SessionIdle
    /\ OrderIdle
    /\ VocabIdle
    /\ ManifestIdle
    /\ XpIdle
    /\ rpc = "start"
    /\ jwtArg \in Tokens
    /\ urlArg \in Urls
    /\ dataArg \in DataArgs
    /\ prepped = NoPrepped
    /\ ConcIdle
    /\ PluginIdle

NextRequest ==
    \/ SendReq

SpecRequest == InitRequest /\ [][NextRequest]_vars

\* A constructed client shared by the callers; its snapshot is the one loaded
\* at construction.
InitConc ==
    /\ pc = "idle"
    /\ srvActive \in Langs
    /\ user_data = ProfileDoc(srvActive)
    /\ authProbe = 200
    /\ cur = NoOp
    /\ log = << >>
    /\ outcome = "ok"
    /\ result = "none"
    /\ OrderIdle
    /\ VocabIdle
    /\ ManifestIdle
    /\ XpIdle
    /\ RequestIdle
    /\ ConcIdle
    /\ PluginIdle

NextConc ==
    \/ \E t \in Callers, op \in CallerOps, abbr \in Langs : CallerCall(t, op, abbr)
    \/ \E t \in Callers : CallerSwitchPost(t)
    \/ \E t \in Callers : CallerSwitchGet(t)
    \/ \E t \in Callers : CallerSwitchInstall(t)
    \/ \E t \in Callers : CallerSwitchVerify(t)
    \/ \E t \in Callers : CallerRead(t)

SpecConc == InitConc /\ [][NextConc]_vars

\* The user picks "Pull from Duolingo".
InitPlugin ==
    /\ SessionIdle
    /\ OrderIdle
    /\ VocabIdle
    /\ ManifestIdle
    /\ XpIdle
    /\ RequestIdle
    /\ ConcIdle
    /\ PluginIdle

NextPlugin ==
    \/ SyncDuolingo
    \/ LoginAndRetrieveVocab
    \/ OnRetrieveSuccess
    \/ AddNote
    \/ AddReturn

SpecPlugin == InitPlugin /\ [][NextPlugin]_vars

(***************************************************************************)
(* Properties of the session (checked under Spec)                          *)
(***************************************************************************)
\* The operation in progress or just completed sent the switch POST.
SwitchRan == log # << >> /\ log[1].req = "POST_switch_language"

\* _switch_language is no longer running: it returned or raised.
SwitchLeft == SwitchRan /\ pc \notin {"sw_post", "sw_reload"}

\* _switch_language raised: the operation ended on one of its two requests.
SwitchRaised ==
    /\ SwitchLeft
    /\ pc = "idle"
    /\ log[Len(log)].req \in {"POST_switch_language", "GET_user"}
    /\ outcome \in {"ConnectionError", "HTTPError", "UserNotFound",
                    "JSONDecodeError", "FailedToSwitchLanguage"}

\* _switch_language returned normally.
SwitchReturned == SwitchLeft /\ ~SwitchRaised

\* The POST was answered and raise_for_status let it pass.
PostAccepted == SwitchRan /\ log[1].sent /\ log[1].st < 400

\* The reload GET was sent and installed a new snapshot.
ReloadCompleted ==
    /\ Len(log) >= 2
    /\ log[2].req = "GET_user"
    /\ log[2].sent /\ log[2].st # 404 /\ log[2].json

\* The requests _switch_language sent.
IsSwitchRequest(e) == e.req \in {"POST_switch_language", "GET_user"}

SwitchLog == SelectSeq(log, IsSwitchRequest)

NumSwitchPosts ==
    Cardinality({i \in 1..Len(log) : log[i].req = "POST_switch_language"})

\* An operation has completed and the client is back with the caller.
Completed == pc = "idle" /\ outcome # "none"

\* C1: construction either raises or hands out a client whose
\* authentication probe returned 200: a probe status other than 200 ends
\* construction with an error and installs no snapshot, and every position
\* from which an operation can run is reached only after a 200 probe.
C1_ClientOnlyAfterProbe200 ==
    /\ pc \in {"ctor_load", "idle", "sw_post", "sw_reload", "read",
              "vocab_course", "vocab_page"}
          => authProbe = 200
    /\ authProbe \notin {0, 200}
          => /\ pc = "failed"
             /\ outcome = "UnableToAuthenticate"
             /\ ~user_data.loaded

\* C1 witness: the probe was answered 401 and construction raised.
C1_Witness ==
    pc = "failed" /\ authProbe = 401 /\ outcome = "UnableToAuthenticate"

\* C2: switch_active_language(abbr) returns normally only if abbr is a key of
\* language_data in the snapshot reloaded after the POST; when the POST was
\* accepted, the reload completed and abbr is absent from it, the call raises
\* the language-switch error.
C2_SwitchVerifiedByReload ==
    /\ SwitchReturned
          => ReloadCompleted /\ cur.abbr \in Keys(user_data)
    /\ (SwitchLeft /\ PostAccepted /\ ReloadCompleted
           /\ cur.abbr \notin Keys(user_data))
          => pc = "idle" /\ outcome = "FailedToSwitchLanguage"

\* C2 witness: the platform answered the POST with 200, ignored it, and the
\* call raised after the reload.
C2_Witness ==
    /\ Completed
    /\ cur.op = "switch_active_language"
    /\ log[1].st = 200
    /\ ReloadCompleted
    /\ srvActive # cur.abbr
    /\ outcome = "FailedToSwitchLanguage"

\* C3 as stated: whatever response the POST receives, a reload GET follows
\* it before the call returns or raises.
C3_ReloadFollowsEveryResponse ==
    (SwitchLeft /\ log[1].sent)
        => Len(log) >= 2 /\ log[2].req = "GET_user"

\* C3 amended: the reload GET follows the POST exactly when the POST is
\* answered with a status below 400; on a 4xx/5xx answer the call raises the
\* HTTP error, and on a transport failure the connection error, without any
\* reload.
C3_ReloadFollowsAcceptedPost ==
    SwitchLeft =>
        /\ Len(SwitchLog) <= 2
        /\ IF PostAccepted
             THEN Len(SwitchLog) = 2 /\ log[2].req = "GET_user"
             ELSE /\ Len(log) = 1
                  /\ pc = "idle"
                  /\ outcome = IF log[1].sent THEN "HTTPError"
                                              ELSE "ConnectionError"

\* C3 witness: a POST answered 304 (not 2xx, not an error status) was
\* followed by the reload.
C3_Witness ==
    /\ Completed
    /\ SwitchRan
    /\ log[1].st = 304
    /\ Len(log) = 2 /\ log[2].req = "GET_user"

\* C4: an accessor that reads language_data[abbr].skills reads it only from
\* a snapshot that has abbr as a key, and when abbr was absent at the call it
\* has performed the switch before reading.
C4_SkillAccessorsEnsureActive ==
    (pc = "read" /\ cur.op \in SkillAccessors)
        => /\ cur.abbr \in Keys(user_data)
           /\ ~cur.wasActive => SwitchRan

\* C5: a per-language accessor called with abbr absent from language_data
\* sends exactly one switch POST, and none when abbr is a key; when it returns
\* normally language_data contains abbr; when the platform ignored the switch
\* it raises the language-switch error.
C5_ExactlyOneSwitchPerAccessor ==
    (Completed /\ cur.op \in PerLanguageAccessors)
        => /\ NumSwitchPosts = IF cur.wasActive THEN 0 ELSE 1
           /\ outcome = "ok" => cur.abbr \in Keys(user_data)
           /\ (PostAccepted /\ ReloadCompleted
                  /\ cur.abbr \notin Keys(user_data))
                 => outcome = "FailedToSwitchLanguage"

\* C6: whenever the client is back with the caller (after construction and
\* after every operation, however it ended) the keys of the cached
\* language_data are exactly the platform's active learning language.
C6_KeysAreActiveLanguage ==
    pc = "idle" => Keys(user_data) = {srvActive}

(***************************************************************************)
(* Properties of the skill ordering (checked under SpecOrder)              *)
(***************************************************************************)
\* a lists b among its dependencies.
DependsOn(a, b) == InSeq(b, deps[a])

\* Non-empty lists of names no longer than the skill list.
NamePaths == UNION {[1..k -> Names] : k \in 1..Cardinality(Names)}

\* The dependency graph has a cycle (a skill that depends on itself is one).
Cyclic ==
    \E p \in NamePaths :
        /\ \A i \in 1..(Len(p) - 1) : DependsOn(p[i], p[i + 1])
        /\ DependsOn(p[Len(p)], p[1])

\* Number of skills on the longest prerequisite chain that ends at n.
LongestChain(n) ==
    LET chains == {p \in NamePaths :
                      /\ p[Len(p)] = n
                      /\ \A i \in 1..(Len(p) - 1) : DependsOn(p[i + 1], p[i])}
        lens == {Len(p) : p \in chains}
    IN  CHOOSE x \in lens : \A y \in lens : y <= x

\* C7: after compute_orders returns on an acyclic skill list, every skill
\* without dependencies has order 1, every other skill has 1 + the largest
\* order among its dependencies, and that is the number of skills on the
\* longest prerequisite chain ending at it, for every list order.
C7_OrderIsLongestChain ==
    (opc = "returned" /\ ~Cyclic) =>
        \A n \in Names :
            /\ order[n] = IF deps[n] = << >> THEN 1
                          ELSE 1 + Max([i \in 1..Len(deps[n]) |-> order[deps[n][i]]])
            /\ order[n] = LongestChain(n)

\* C7 witness: compute_orders returned on a list in which a skill has two
\* dependencies of different depth, the shallow one listed first.
C7_Witness ==
    /\ opc = "returned"
    /\ \E n \in Names :
          /\ Len(deps[n]) = 2
          /\ order[deps[n][1]] < order[deps[n][2]]
          /\ order[n] = 3

\* The reported chain: it starts at the skill of the outer loop, each name
\* lists the next among its dependencies, and its last name occurs earlier
\* in it, so the names from that occurrence on are the detected cycle.
ChainIsCycle ==
    /\ Len(chain) >= 2
    /\ chain[1] = skills[oidx]
    /\ \A k \in 1..(Len(chain) - 1) : DependsOn(chain[k], chain[k + 1])
    /\ \E p \in 1..(Len(chain) - 1) : chain[p] = chain[Len(chain)]

\* C8: on a skill list whose dependency graph has a cycle compute_orders
\* never returns normally and never runs past the list: it ends by raising
\* the loop error, whose chain holds the detected cycle and ends with the
\* repeated name, for every list order and memoized state.
C8_CycleRaisesWithChain ==
    /\ opc = "raised" => Cyclic /\ ChainIsCycle
    /\ opc = "returned" => ~Cyclic
    /\ opc = "loop" => oidx <= Len(skills)
    /\ (Cyclic /\ calls > 0) => opc \in {"raised", "loop"}

\* C8 witness: the cycle A -> B -> A was reported as <<A, B, A>> when another
\* skill's order was already memoized.
C8_Witness ==
    /\ opc = "raised"
    /\ Len(chain) = 3
    /\ chain[1] = chain[3]
    /\ chain[1] # chain[2]
    /\ \E n \in Names : order[n] # Unset

\* C9: every assignment to the dependency_order of a skill that already has
\* one writes the value it holds, and no step (of this or of a repeated
\* compute_orders call) changes an order that is set.
C9_OrderStableOnceSet ==
    /\ [](\A i \in 1..Len(writes) :
            writes[i].old # Unset => writes[i].new = writes[i].old)
    /\ [][\A n \in Names : order[n] # Unset => order'[n] = order[n]]_vars

\* C9 witness: a second compute_orders call rewrote the order of a skill of
\* depth 3.
C9_Witness ==
    /\ calls = 2
    /\ opc = "returned"
    /\ \E i \in 1..Len(writes) : writes[i].old = 3 /\ writes[i].new = 3

(***************************************************************************)
(* Properties of the pagination (checked under SpecVocab)                  *)
(***************************************************************************)
\* C10 as stated: when the loop returns, the number of lexemes returned
\* equals the reported totalLexemes exactly.
C10_ReturnsExactlyTotal ==
    vpc = "returned" => Len(data) = totalLexemes

\* C10 amended: the accumulated count never decreases from one page to the
\* next, and when the loop returns the number of lexemes returned is at least
\* the totalLexemes of the last response (never fewer; it may be more).
C10_CountMonotoneAtLeastTotal ==
    /\ [][Len(data') >= Len(data)]_vars
    /\ [](vpc = "returned" => Len(data) >= totalLexemes)

\* C10 witness: the loop returned after several pages with more lexemes than
\* the reported total.
C10_Witness ==
    /\ vpc = "returned"
    /\ Len(requests) >= 2
    /\ Len(data) > totalLexemes
    /\ totalLexemes > 0

\* C11: the loop ends against every platform behaviour: it returns or raises
\* after finitely many requests instead of requesting pages for ever.
C11_FetchAllTerminates ==
    <>(vpc \in {"returned", "raised"})

\* C12: against a conforming platform the loop starts at cursor 0, asks each
\* next page at the position the previous response gave (the number of
\* lexemes held so far), never asks a cursor it asked before, holds the
\* pages' lexemes in request order, and returns right after the page that
\* completes the total.
C12_ConformingWalk ==
    conforming =>
        /\ requests # << >> => requests[1] = 0
        /\ \A i \in 2..Len(requests) :
              requests[i] > requests[i - 1] /\ requests[i] # requests[1]
        /\ data = [j \in 1..Len(data) |-> j]
        /\ (vpc = "loop" /\ requests # << >>)
              => current_index = Len(data) /\ Len(data) < totalLexemes
        /\ vpc = "returned"
              => /\ Len(data) = totalLexemes
                 /\ totalLexemes > 0 => requests[Len(requests)] < totalLexemes
        /\ vpc # "raised"

\* C12 witness: three pages of one lexeme each against a total of three.
C12_Witness ==
    /\ conforming
    /\ vpc = "returned"
    /\ requests = <<0, 1, 2>>
    /\ data = <<1, 2, 3>>

\* The places of a course path that hold a skill id: section s, unit u among
\* the first completedUnits, level l not a chest or unit review, k-th id of
\* the level's client data.
IdsOfLevel(l) ==
    IF "skillId" \in DOMAIN l.pathLevelClientData
      THEN <<l.pathLevelClientData.skillId>>
      ELSE IF "skillIds" \in DOMAIN l.pathLevelClientData
        THEN l.pathLevelClientData.skillIds
        ELSE << >>

LevelAt(p) == current_courses[p[1]].units[p[2]].levels[p[3]]

IdPlaces ==
    UNION {UNION {UNION {
        {<<s, u, l, k>> :
            k \in 1..Len(IdsOfLevel(current_courses[s].units[u].levels[l]))} :
        l \in {x \in 1..Len(current_courses[s].units[u].levels) :
                 current_courses[s].units[u].levels[x].type
                     \notin {"chest", "unit_review"}}} :
        u \in 1..current_courses[s].completedUnits} :
        s \in 1..Len(current_courses)}

Before(p, q) ==
    \E i \in 1..4 : p[i] < q[i] /\ \A j \in 1..(i - 1) : p[j] = q[j]

PlaceRank(p) == 1 + Cardinality({q \in IdPlaces : Before(q, p)})

\* C13: the manifest has exactly one entry per skill id of every level that
\* is in one of the first completedUnits units of a section and is neither a
\* chest nor a unit review; the entry holds finishedLevels 1, the level's
\* finishedSessions and the id; entries are in traversal order; nothing else
\* contributes an entry.
C13_ManifestIsCompletedSkillLevels ==
    mpc = "built" =>
        /\ Len(progressed_skills) = Cardinality(IdPlaces)
        /\ \A p \in IdPlaces :
              progressed_skills[PlaceRank(p)] =
                  [finishedLevels |-> 1,
                   finishedSessions |-> LevelAt(p).finishedSessions,
                   skillId |-> [id |-> IdsOfLevel(LevelAt(p))[p[4]]]]

\* C13 witness: a completed unit holding a level with two skill ids and a
\* unit review, followed by an uncompleted unit holding a skill level.
C13_Witness ==
    /\ mpc = "built"
    /\ Len(current_courses) = 1
    /\ current_courses[1].completedUnits = 1
    /\ Len(current_courses[1].units) = 2
    /\ current_courses[1].units[1].levels =
          <<[type |-> "skill", pathLevelClientData |-> [skillIds |-> <<"s2", "s3">>],
             finishedSessions |-> 1],
            [type |-> "unit_review",
             pathLevelClientData |-> [skillIds |-> <<"s2", "s3">>],
             finishedSessions |-> 0]>>
    /\ current_courses[1].units[2].levels =
          <<[type |-> "skill", pathLevelClientData |-> [skillId |-> "s1"],
             finishedSessions |-> 0]>>
    /\ progressed_skills = <<NewObj("s2", 1), NewObj("s3", 1)>>

\* C14 as stated: the cutoff is the reported streak-update time when that
\* time is at or before local midnight, the instant of local midnight when
\* it is later, and so never later than either.
C14_CutoffIsReportedOrMidnight ==
    xpc = "done" =>
        LET reported == daily_progress.updatedTimestamp
            reported_midnight == FromTimestamp(zone, reported)
            midnight == Midnight(zone, now)
        IN  /\ reported_midnight.wall <= midnight.wall
                => update_cutoff = reported
            /\ reported_midnight.wall > midnight.wall
                => update_cutoff = Timestamp(zone, midnight)
            /\ update_cutoff <= reported
            /\ update_cutoff <= Timestamp(zone, midnight)

\* The positions of xpGains whose time is strictly after the cutoff.
KeptLessons ==
    {i \in 1..Len(daily_progress.xpGains) :
        daily_progress.xpGains[i].time > update_cutoff}

RECURSIVE XpOver(_)
XpOver(S) ==
    IF S = {}
      THEN 0
      ELSE LET i == CHOOSE x \in S : TRUE
           IN  daily_progress.xpGains[i].xp + XpOver(S \ {i})

\* C15: lessons_today is exactly the xpGains entries whose time is strictly
\* greater than the cutoff, in their original order (an entry at the cutoff
\* is left out); xp_today is the sum of their xp, 0 when there is none;
\* xp_goal is the fetched xpGoal.
C15_LessonsStrictlyAfterCutoff ==
    xpc = "done" =>
        /\ Len(xp_result.lessons_today) = Cardinality(KeptLessons)
        /\ \A i \in KeptLessons :
              xp_result.lessons_today[Cardinality({j \in KeptLessons : j <= i})]
                  = daily_progress.xpGains[i]
        /\ xp_result.xp_today = XpOver(KeptLessons)
        /\ KeptLessons = {} => xp_result.xp_today = 0
        /\ xp_result.xp_goal = daily_progress.xpGoal

\* C15 witness: a lesson at the cutoff followed by a lesson one tick later;
\* only the later one is returned.
C15_Witness ==
    /\ xpc = "done"
    /\ Len(daily_progress.xpGains) = 2
    /\ daily_progress.xpGains[1] = [time |-> update_cutoff, xp |-> 5]
    /\ daily_progress.xpGains[2] = [time |-> update_cutoff + 1, xp |-> 7]
    /\ daily_progress.xpGoal = 20
    /\ xp_result = [xp_goal |-> 20,
                    lessons_today |-> <<[time |-> update_cutoff + 1, xp |-> 7]>>,
                    xp_today |-> 7]

\* A request that failed: no response, or an error status.
RequestFailed(e) == ~e.sent \/ e.st >= 400

\* C16: a request that failed is the last one its operation sends, and the
\* operation ends with an error.
C16_FailedRequestEndsOperation ==
    \A i \in 1..Len(log) :
        RequestFailed(log[i]) =>
            /\ i = Len(log)
            /\ pc \in {"idle", "failed"}
            /\ outcome \notin {"none", "ok"}

\* The step sends a request and the platform answers it with response kind
\* (status st, JSON body or not).
Answered(st, json) ==
    /\ Len(log') = Len(log) + 1
    /\ log'[Len(log')].sent
    /\ log'[Len(log')].st = st
    /\ log'[Len(log')].json = json

\* C17: when the profile GET of a load (the initial one or the reload inside
\* the switch) is answered 404, the load raises the not-found error and the
\* cached snapshot stays as it was.
C17_NotFoundLeavesSnapshot ==
    [][(pc \in {"ctor_load", "sw_reload"}
          /\ \E json \in BOOLEAN : Answered(404, json))
        => /\ outcome' = "UserNotFound"
           /\ user_data' = user_data
           /\ pc' = IF pc = "ctor_load" THEN "failed" ELSE "idle"]_vars

\* C17 witness: the reload inside a switch was answered 404; the call raised
\* and the client still holds a snapshot.
C17_Witness ==
    /\ pc = "idle"
    /\ SwitchRan
    /\ Len(log) = 2
    /\ log[2].sent /\ log[2].st = 404
    /\ outcome = "UserNotFound"
    /\ user_data.loaded

\* C18: a reload that completes leaves in the cache exactly the document the
\* platform served: the active language's entry alone, with no memoized
\* dependency_order, whatever the previous snapshot held.
C18_SnapshotReplacedWholesale ==
    [][(pc = "sw_reload"
          /\ \E st \in Statuses \ {404} : Answered(st, TRUE))
        => /\ user_data' = ProfileDoc(srvActive)
           /\ Keys(user_data') = {srvActive}
           /\ ~HasOrder(user_data')]_vars

\* C18 witness: the previous snapshot held memoized orders, the reload
\* completed, the call raised the language-switch error, and the cache holds
\* the served document.
C18_Witness ==
    /\ pc = "idle"
    /\ outcome = "FailedToSwitchLanguage"
    /\ cur.hadOrder
    /\ user_data = ProfileDoc(srvActive)
    /\ ~HasOrder(user_data)

\* C19: construction sends the username lookup, then one authentication
\* probe, then the snapshot load; the probe only after the username was read,
\* the load only after the probe answered 200; a constructed client has sent
\* exactly these three.
C19_ConstructionOrder ==
    cur.op = "construct" =>
        /\ Len(log) <= 3
        /\ \A i \in 1..Len(log) :
              log[i].req = IF i = 1 THEN "GET_user_by_id" ELSE "GET_user"
        /\ Len(log) >= 2 => log[1].sent /\ log[1].json
        /\ Len(log) = 3 => log[2].sent /\ log[2].st = 200
        /\ pc = "ctor_probe" => Len(log) = 1
        /\ pc = "ctor_load" => Len(log) = 2
        /\ pc = "idle" => Len(log) = 3 /\ log[3].sent /\ log[3].json

\* C19 witness: a constructed client, three requests sent.
C19_Witness ==
    /\ cur.op = "construct"
    /\ pc = "idle"
    /\ outcome = "ok"
    /\ Len(log) = 3
    /\ user_data.loaded

IsVocabRequest(e) == e.req \in {"GET_current_course", "POST_learned_lexemes"}

C22_NeverAnotherLanguage ==
    \A t \in Callers :
        /\ tres[t] # "none" => tres[t] = targ[t].abbr /\ tout[t] = "ok"
        /\ (tpc[t] = "idle" /\ tout[t] = "ok") => tres[t] = targ[t].abbr

\* C22 witness: a caller's own switch to abbr was verified, the other caller
\* then replaced the snapshot with another language's, and the first
\* caller's read raised.
C22_Witness ==
    \E t \in Callers, u \in Callers :
        /\ t # u
        /\ targ[t].op = "get_known_topics"
        /\ tverified[t]
        /\ tpc[t] = "idle" /\ tout[t] = "KeyError"
        /\ targ[u].abbr # targ[t].abbr
        /\ tverified[u]
        /\ tout[u] = "ok" /\ tres[u] = targ[u].abbr

\* C23: with a missing or empty credential construction fails before any
\* request is sent: it raises at the credential test, the request log stays
\* empty and no client is handed out.
C23_NoRequestWithoutCredential ==
    jwtArg \in {NoneJwt, ""} =>
        /\ log = << >>
        /\ pc \in {"new", "failed"}
        /\ pc = "failed" => outcome = "RuntimeError"
        /\ ~user_data.loaded
        /\ authProbe = 0

\* C23 witness: construction with the credential None (the login dialog was
\* closed before the cookie was seen) has raised.
C23_Witness ==
    /\ jwtArg = NoneJwt
    /\ pc = "failed"
    /\ outcome = "RuntimeError"
    /\ log = << >>

\* The entries processed so far whose note produced no card.
NoCardEntries == {i \in 1..Len(cards) : cards[i] = 0}

\* C24: add_vocab takes the entries of words_to_add one by one in order;
\* after each, notes_added + len(problem_vocabs) is the number processed; on
\* return it is len(words_to_add); problem_vocabs holds, in order, exactly
\* the texts of the entries whose note produced no card.
C24_AddVocabAccounting ==
    LET words == retrieve_result.words_to_add IN
    /\ words_processed = Len(cards)
    /\ words_processed <= Len(words)
    /\ add_result.notes_added + Len(add_result.problem_vocabs) = words_processed
    /\ ppc = "added" => words_processed = Len(words)
    /\ add_result.notes_added = Cardinality({i \in 1..Len(cards) : cards[i] # 0})
    /\ Len(add_result.problem_vocabs) = Cardinality(NoCardEntries)
    /\ \A i \in NoCardEntries :
          add_result.problem_vocabs[Cardinality({j \in NoCardEntries : j <= i})]
              = words[i]

\* C24 witness: two entries were processed, the first produced no card, the
\* second did, and add_vocab returned.
C24_Witness ==
    /\ ppc = "added"
    /\ Len(retrieve_result.words_to_add) = 2
    /\ cards = <<0, 1>>
    /\ add_result = [notes_added |-> 1,
                     problem_vocabs |-> <<retrieve_result.words_to_add[1]>>]

\* C25: when Duolingo(jwt=jwt) raised ConnectionError, the result is the
\* failure result with no words, the vocabulary was not requested, and
\* on_retrieve_success shows no message or prompt after the connection
\* warning and starts no import.
C25_ConnectionFailureStopsSync ==
    ctorOutcome = "ConnectionError" =>
        /\ retrieve_result.success = FALSE
        /\ retrieve_result.words_to_add = << >>
        /\ ~vocabRequested
        /\ ppc \in {"retrieved", "done"}
        /\ ui = <<"showWarning_notice", "showWarning_connect">>
        /\ words_processed = 0
        /\ add_result = NoAddResult

\* C25 witness: the connection failed during construction and
\* on_retrieve_success has returned.
C25_Witness ==
    /\ ctorOutcome = "ConnectionError"
    /\ ppc = "done"
    /\ token = "jwtA"
    /\ ui = <<"showWarning_notice", "showWarning_connect">>

====
